---------------------------- MODULE Spec2Model ----------------------------
(***************************************************************************)
(* Model of pymeasure/instruments/instrument.py: the synchronisation       *)
(* engine (stb_polling, write_sync, ask_sync, values_sync) and the         *)
(* accessor generators (control, measurement, setting).                    *)
(*                                                                         *)
(* Python strings are sequences of one-character strings, so that split,   *)
(* strip, concatenation and number parsing are computed, not assumed.      *)
(* Python values are tagged records [t, n, e, s]:                          *)
(*   int   n            t = "int",   n = the integer                       *)
(*   float n / 10^e     t = "float", e = number of fraction digits         *)
(*   bool               t = "bool",  n = 1 or 0                            *)
(*   str                t = "str",   s = the characters                    *)
(***************************************************************************)
EXTENDS Integers, Sequences, FiniteSets, TLC

\* ------------------------------------------------------------------ bounds
MaxReplyLen == 3      \* replies of every length up to this are enumerated
MaxTimeout == 6       \* polling timeouts 0..MaxTimeout (clock ticks)
MaxInterval == 2      \* polling intervals 1..MaxInterval (clock ticks)
MaxUnread == 2        \* -MaxUnread..MaxUnread responses left unread
MaxStart == 1         \* clock readings 0..MaxStart at the start of a loop

\* ------------------------------------------------------- strings (Python)
Digits == <<"0", "1", "2", "3", "4", "5", "6", "7", "8", "9">>
IsDigit(c) == \E i \in 1..10 : Digits[i] = c
DigitVal(c) == (CHOOSE i \in 1..10 : Digits[i] = c) - 1
IsSpace(c) == c = " "

RECURSIVE Pow10(_)
Pow10(k) == IF k = 0 THEN 1 ELSE 10 * Pow10(k - 1)

RECURSIVE DigitsToNat(_)
DigitsToNat(s) ==
    IF s = <<>> THEN 0
    ELSE 10 * DigitsToNat(SubSeq(s, 1, Len(s) - 1)) + DigitVal(s[Len(s)])

RECURSIVE NatToDigits(_)
NatToDigits(n) ==
    IF n < 10 THEN <<Digits[n + 1]>>
    ELSE NatToDigits(n \div 10) \o <<Digits[(n % 10) + 1]>>

AllDigits(s) == \A i \in 1..Len(s) : IsDigit(s[i])

\* str.find(c): first position of c, 0 when absent
FindChar(s, c) ==
    IF \E i \in 1..Len(s) : s[i] = c
    THEN CHOOSE i \in 1..Len(s) : s[i] = c /\ \A j \in 1..(i - 1) : s[j] # c
    ELSE 0

\* str.split(sep) for a one-character separator
RECURSIVE PySplit(_, _)
PySplit(s, sep) ==
    LET p == FindChar(s, sep)
    IN  IF p = 0 THEN <<s>>
        ELSE <<SubSeq(s, 1, p - 1)>> \o PySplit(SubSeq(s, p + 1, Len(s)), sep)

\* str.strip(): whitespace removed at both ends
RECURSIVE PyLStrip(_)
PyLStrip(s) ==
    IF s # <<>> /\ IsSpace(s[1]) THEN PyLStrip(Tail(s)) ELSE s

RECURSIVE PyRStrip(_)
PyRStrip(s) ==
    IF s # <<>> /\ IsSpace(s[Len(s)])
    THEN PyRStrip(SubSeq(s, 1, Len(s) - 1)) ELSE s

PyStrip(s) == PyLStrip(PyRStrip(s))

\* -------------------------------------------------------- values (Python)
VInt(n) == [t |-> "int", n |-> n, e |-> 0, s |-> <<>>]
VFloat(m, e) == [t |-> "float", n |-> m, e |-> e, s |-> <<>>]
VBool(b) == [t |-> "bool", n |-> IF b THEN 1 ELSE 0, e |-> 0, s |-> <<>>]
VStr(s) == [t |-> "str", n |-> 0, e |-> 0, s |-> s]

IsNum(v) == v.t \in {"int", "float", "bool"}

\* Python ==: numbers compare by numeric value across int, float and bool
PyEq(a, b) ==
    IF IsNum(a) /\ IsNum(b) THEN a.n * Pow10(b.e) = b.n * Pow10(a.e)
    ELSE IF a.t = "str" /\ b.t = "str" THEN a.s = b.s
    ELSE FALSE

\* fraction digits without trailing zeros
RECURSIVE DropTrailingZeros(_)
DropTrailingZeros(s) ==
    IF s # <<>> /\ s[Len(s)] = "0"
    THEN DropTrailingZeros(SubSeq(s, 1, Len(s) - 1)) ELSE s

\* float(text) accepts surrounding whitespace, digits with at most one
\* point and at least one digit. (sign, exponent, inf/nan and '_' need
\* characters that no reply of the model contains)
FloatOk(text) ==
    LET s == PyStrip(text)
        p == FindChar(s, ".")
        l == IF p = 0 THEN s ELSE SubSeq(s, 1, p - 1)
        r == IF p = 0 THEN <<>> ELSE SubSeq(s, p + 1, Len(s))
    IN  AllDigits(l) /\ AllDigits(r) /\ Len(l) + Len(r) >= 1

PyFloat(text) ==
    LET s == PyStrip(text)
        p == FindChar(s, ".")
        l == IF p = 0 THEN s ELSE SubSeq(s, 1, p - 1)
        r == IF p = 0 THEN <<>>
             ELSE DropTrailingZeros(SubSeq(s, p + 1, Len(s)))
    IN  VFloat(DigitsToNat(l \o r), Len(r))

\* int(text) accepts surrounding whitespace and a non-empty digit string
IntOk(text) == LET s == PyStrip(text) IN s # <<>> /\ AllDigits(s)
PyInt(text) == VInt(DigitsToNat(PyStrip(text)))

\* int(value) on a number truncates
Trunc(v) == v.n \div Pow10(v.e)


\* ------------------------------------------------------- bitwise (Python &)
RECURSIVE BitAnd(_, _)
BitAnd(a, b) ==
    IF a = 0 \/ b = 0 THEN 0
    ELSE (a % 2) * (b % 2) + 2 * BitAnd(a \div 2, b \div 2)

\* --------------------------------------------------------------- transport
\* One entry per call the instrument makes on its adapter (and per call of
\* the check_errors hook), in the order the calls are made.
Ev(op, arg) == [op |-> op, arg |-> arg]
TransportOps == {"write", "read", "ask", "values", "read_stb"}

\* command texts of the source
ESE_ENABLE == <<"*", "E", "S", "E", " ", "1">>
ESE_QUERY == <<"*", "E", "S", "E", "?">>
ESR_QUERY == <<"*", "E", "S", "R", "?">>
OPC_QUERY_SUFFIX == <<";", "*", "O", "P", "C", "?">>
OPC_SUFFIX == <<";", "*", "O", "P", "C">>

\* sync_method values: the two names the source knows, Python None, and a
\* name the source does not know
NoneMode == "None"
UnknownMode == "opc_qury"
KnownModes == {"opc_query", "stb_polling"}
Modes == KnownModes \cup {NoneMode, UnknownMode}

\* ---------------------------------------------------------- write_sync
\* Instrument.write_sync up to the point where it either returns or enters
\* stb_polling: the adapter calls made, and whether polling follows.
\* mutant: the command goes out before the registers are read back
write_sync_handshake_command_first(command) ==
    << Ev("write", ESE_ENABLE), Ev("write", command \o OPC_SUFFIX),
       Ev("ask", ESE_QUERY), Ev("ask", ESR_QUERY) >>

write_sync_handshake(command) ==
    << Ev("write", ESE_ENABLE), Ev("ask", ESE_QUERY), Ev("ask", ESR_QUERY),
       Ev("write", command \o OPC_SUFFIX) >>

write_sync(command, sync_method) ==
    IF sync_method = "opc_query"
    THEN [ops |-> <<Ev("write", command \o OPC_QUERY_SUFFIX), Ev("read", <<>>)>>,
          poll |-> FALSE]
    ELSE IF sync_method = "stb_polling"
    THEN [ops |-> write_sync_handshake(command), poll |-> TRUE]
    ELSE [ops |-> <<Ev("write", command)>>, poll |-> FALSE]

\* ------------------------------------------------------------ ask_sync
\* Instrument.ask "writes the command to the instrument through the adapter
\* and returns the read response": the calls a sequence of adapter calls
\* amounts to, each ask taken as its write and its read
RECURSIVE WriteAndRead(_)
WriteAndRead(ops) ==
    IF ops = <<>> THEN <<>>
    ELSE (IF Head(ops).op = "ask"
          THEN <<Ev("write", Head(ops).arg), Ev("read", <<>>)>>
          ELSE <<Head(ops)>>) \o WriteAndRead(Tail(ops))

\* mutant: in opc_query mode a second read follows the one write_sync makes
ask_sync_extra_read(command, sync_method) ==
    IF sync_method = "opc_query"
    THEN [ops |-> <<Ev("write", command \o OPC_QUERY_SUFFIX), Ev("read", <<>>),
                    Ev("read", <<>>)>>,
          poll |-> FALSE]
    ELSE IF sync_method = "stb_polling"
    THEN write_sync(command, sync_method)
    ELSE [ops |-> <<Ev("ask", command)>>, poll |-> FALSE]

\* Instrument.ask_sync up to the read that yields `result` (modes opc_query
\* and else) or up to the polling loop (mode stb_polling).
ask_sync(command, sync_method) ==
    IF sync_method = "opc_query"
    THEN [ops |-> <<Ev("write", command \o OPC_QUERY_SUFFIX), Ev("read", <<>>)>>,
          poll |-> FALSE]
    ELSE IF sync_method = "stb_polling"
    THEN write_sync(command, sync_method)
    ELSE [ops |-> <<Ev("ask", command)>>, poll |-> FALSE]

\* mutant: ask_sync returns after polling without reading the reply
ask_sync_after_poll_no_read == <<>>

\* the read ask_sync makes once write_sync has returned from polling
ask_sync_after_poll == <<Ev("read", <<>>)>>

\* mutant: the last segment is returned
ask_sync_result_last(result) ==
    LET parts == PySplit(result, ";") IN parts[Len(parts)]

\* return result.split(";")[0]
ask_sync_result(result) == PySplit(result, ";")[1]

\* --------------------------------------------------------- values_sync
\* mutant: bool(token) without the float in between
CastToken_bool_of_text(token, cast) ==
    IF cast = "bool" THEN VBool(token # <<>>)
    ELSE IF cast = "float"
    THEN IF FloatOk(token) THEN PyFloat(token) ELSE VStr(token)
    ELSE IF cast = "int"
    THEN IF IntOk(token) THEN PyInt(token) ELSE VStr(token)
    ELSE VStr(token)

\* try: cast(token) except: keep the string
CastToken(token, cast) ==
    IF cast = "bool"
    THEN IF FloatOk(token) THEN VBool(PyFloat(token).n # 0) ELSE VStr(token)
    ELSE IF cast = "float"
    THEN IF FloatOk(token) THEN PyFloat(token) ELSE VStr(token)
    ELSE IF cast = "int"
    THEN IF IntOk(token) THEN PyInt(token) ELSE VStr(token)
    ELSE VStr(token)

\* Instrument.values_sync after ask_sync returned `asked`
values_sync(asked, separator, cast) ==
    LET results == PySplit(PyStrip(asked), separator)
    IN  [i \in 1..Len(results) |-> CastToken(results[i], cast)]


\* ------------------------------------------------------ field descriptors
\* The arguments of Instrument.control / measurement / setting. `values` is
\* a sequence of members (dkind "list": list, tuple or range; dkind "set":
\* a domain that is neither ordered nor a dict) or a sequence of
\* <<key, code>> pairs in insertion order (dkind "dict").
X == VStr(<<"X">>)
Y == VStr(<<"Y">>)
Z == VStr(<<"Z">>)

BaseNames == {"plain", "strict", "proc", "procmap", "list", "names", "dict",
              "dictstr", "dictnum", "dictdup", "setfree", "setmap"}

Descriptor(values, dkind, map_values, validator, set_process, fmt, check) ==
    [values |-> values, dkind |-> dkind, map_values |-> map_values,
     validator |-> validator, set_process |-> set_process,
     get_process |-> "identity", command_process |-> "identity", fmt |-> fmt,
     check_set_errors |-> check, check_get_errors |-> check,
     timeout |-> 1, interval |-> 1, mask |-> 32]

Desc(b) ==
    CASE b = "plain" ->
           Descriptor(<<>>, "list", FALSE, "identity", "identity", "%d", FALSE)
      [] b = "strict" ->
           Descriptor(<<VInt(1), VInt(2)>>, "list", FALSE, "strict",
                      "identity", "%d", FALSE)
      [] b = "proc" ->
           Descriptor(<<VInt(1), VInt(2)>>, "list", FALSE, "strict",
                      "inc", "%d", TRUE)
      [] b = "procmap" ->
           Descriptor(<<VInt(1), VInt(2)>>, "list", TRUE, "strict",
                      "inc", "%d", FALSE)
      [] b = "list" ->
           Descriptor(<<VInt(5), VInt(7), VInt(5)>>, "list", TRUE, "strict",
                      "identity", "%d", TRUE)
      [] b = "names" ->
           Descriptor(<<X, Y>>, "list", TRUE, "identity", "identity", "%d",
                      FALSE)
      [] b = "dict" ->
           Descriptor(<< <<X, VInt(1)>>, <<Y, VInt(2)>> >>, "dict", TRUE,
                      "strict", "identity", "%d", TRUE)
      [] b = "dictstr" ->
           Descriptor(<< <<X, VStr(<<"a">>)>>, <<Y, VStr(<<"b">>)>> >>,
                      "dict", TRUE, "strict", "identity", "%s", FALSE)
      [] b = "dictnum" ->
           Descriptor(<< <<X, VStr(<<"1">>)>>, <<Y, VStr(<<"2">>)>> >>,
                      "dict", TRUE, "strict", "identity", "%s", TRUE)
      [] b = "dictdup" ->
           Descriptor(<< <<X, VInt(1)>>, <<Y, VInt(1)>> >>, "dict", TRUE,
                      "strict", "identity", "%d", TRUE)
      [] b = "setfree" ->
           Descriptor(<<VInt(1), VInt(2)>>, "set", TRUE, "identity",
                      "identity", "%d", FALSE)
      [] OTHER ->
           Descriptor(<<VInt(1), VInt(2)>>, "set", TRUE, "strict",
                      "identity", "%d", TRUE)

GET_COMMAND == <<"G", "?">>
SET_PREFIX == <<"S", " ">>

Kinds == {"control", "measurement", "setting"}

\* a field: a descriptor bound as one accessor kind with its sync methods
Fields ==
    { f \in [base : BaseNames, kind : Kinds, get_sync : Modes, set_sync : Modes] :
        /\ f.kind = "control" => f.get_sync = f.set_sync
        /\ f.kind = "measurement" => f.set_sync = NoneMode
        /\ f.kind = "setting" => f.get_sync = NoneMode }

NoField == [base |-> "plain", kind |-> "none", get_sync |-> NoneMode,
            set_sync |-> NoneMode]

\* values a caller assigns to a field
SetValues == {VInt(0), VInt(1), VInt(2), VInt(5), VInt(7), X, Y, Z}
NoValue == VStr(<<>>)

\* ------------------------------------------------- validation and mapping
\* members a validator or `in` looks at: the keys of a dict, else the members
Members(d) ==
    IF d.dkind = "dict" THEN [i \in 1..Len(d.values) |-> d.values[i][1]]
    ELSE d.values

PyIn(v, seq) == \E i \in 1..Len(seq) : PyEq(seq[i], v)

\* validators.strict_discrete_set(value, values): value if value in values,
\* else ValueError; the default validator returns the value
ValidatorRejects(d, v) == d.validator = "strict" /\ ~PyIn(v, Members(d))

\* set_process: the default (identity) or v + 1, a TypeError on a string
SetProcessFails(d, v) == d.set_process = "inc" /\ ~IsNum(v)
SetProcess(d, v) == IF d.set_process = "inc" THEN VInt(v.n + 1) ELSE v

\* mutant: positions counted from 1
PyIndex_from_one(seq, v) ==
    CHOOSE i \in 1..Len(seq) :
        PyEq(seq[i], v) /\ \A j \in 1..(i - 1) : ~PyEq(seq[j], v)

\* list.index(value): position (from 0) of the first equal member
PyIndex(seq, v) ==
    (CHOOSE i \in 1..Len(seq) :
        PyEq(seq[i], v) /\ \A j \in 1..(i - 1) : ~PyEq(seq[j], v)) - 1

\* dict[key]: the code of the (only) pair with an equal key
DictHas(pairs, k) == \E i \in 1..Len(pairs) : PyEq(pairs[i][1], k)
DictGet(pairs, k) ==
    pairs[CHOOSE i \in 1..Len(pairs) : PyEq(pairs[i][1], k)][2]

\* mutant: the dict is taken as it is, not inverted
InverseOf_not_inverted(pairs) == pairs

\* {v: k for k, v in values.items()}: a later pair with an equal code
\* replaces the key of the earlier one
RECURSIVE InverseOf(_)
InverseOf(pairs) ==
    IF pairs = <<>> THEN <<>>
    ELSE LET n == Len(pairs)
             rest == InverseOf(SubSeq(pairs, 1, n - 1))
             code == pairs[n][2]
             key == pairs[n][1]
         IN  IF DictHas(rest, code)
             THEN [i \in 1..Len(rest) |->
                     IF PyEq(rest[i][1], code) THEN <<rest[i][1], key>>
                     ELSE rest[i]]
             ELSE Append(rest, <<code, key>>)

\* the closure variable `inverse` bound when the accessor is generated
BoundInverse(b) ==
    IF Desc(b).map_values /\ Desc(b).dkind = "dict"
    THEN InverseOf(Desc(b).values) ELSE <<>>

\* set_command % value for the format specifiers %d and %s
FormatFails(fmt, v) == fmt = "%d" /\ ~IsNum(v)
Format(fmt, v) ==
    IF v.t = "str" THEN v.s
    ELSE IF v.t = "bool" /\ fmt = "%s"
    THEN IF v.n = 1 THEN <<"T", "r", "u", "e">> ELSE <<"F", "a", "l", "s", "e">>
    ELSE IF v.t = "float" /\ fmt = "%s"
    THEN NatToDigits(Trunc(v)) \o <<".">> \o
         (IF v.e = 0 THEN <<"0">>
          ELSE LET f == NatToDigits(v.n % Pow10(v.e))
               IN  [i \in 1..(v.e - Len(f)) |-> "0"] \o f)
    ELSE NatToDigits(Trunc(v))


\* -------------------------------------------------------------- accessors
\* What a call produced up to its first wait: an error raised before any
\* further step, the adapter calls made, and whether stb_polling follows.
Raise(kind) == [err |-> kind, ops |-> <<>>, poll |-> FALSE]
Proceed(step) == [err |-> "", ops |-> step.ops, poll |-> step.poll]

\* mutant: with a domain of another kind the value goes out as it is
Encode_any_domain(d, value) ==
    IF ~d.map_values THEN [err |-> "", value |-> value]
    ELSE IF d.dkind = "list"
    THEN IF PyIn(value, d.values)
         THEN [err |-> "", value |-> VInt(PyIndex(d.values, value))]
         ELSE [err |-> "ValueError", value |-> value]
    ELSE IF d.dkind = "dict"
    THEN IF DictHas(d.values, value)
         THEN [err |-> "", value |-> DictGet(d.values, value)]
         ELSE [err |-> "KeyError", value |-> value]
    ELSE [err |-> "", value |-> value]

\* lines 290-300 and 410-420: the value after the mapping stage
Encode(d, value) ==
    IF ~d.map_values THEN [err |-> "", value |-> value]
    ELSE IF d.dkind = "list"
    THEN IF PyIn(value, d.values)
         THEN [err |-> "", value |-> VInt(PyIndex(d.values, value))]
         ELSE [err |-> "ValueError", value |-> value]
    ELSE IF d.dkind = "dict"
    THEN IF DictHas(d.values, value)
         THEN [err |-> "", value |-> DictGet(d.values, value)]
         ELSE [err |-> "KeyError", value |-> value]
    ELSE [err |-> "UnsupportedDomain", value |-> value]

\* mutant: the command is built and sent without consulting the validator
control_fset_unvalidated(f, v) ==
    LET d == Desc(f.base)
        command == SET_PREFIX \o Format(d.fmt, v)
    IN  [err |-> "", ops |-> <<Ev("write", command)>>, poll |-> FALSE]

\* mutant: set_process runs first and the validator sees its result
control_fset_process_first(f, v) ==
    LET d == Desc(f.base)
    IN  IF SetProcessFails(d, v) THEN Raise("TypeError")
        ELSE IF ValidatorRejects(d, SetProcess(d, v)) THEN Raise("InvalidValue")
        ELSE LET m == Encode(d, SetProcess(d, v))
                 command == SET_PREFIX \o Format(d.fmt, m.value)
             IN  IF m.err # "" THEN Raise(m.err)
                 ELSE IF f.set_sync = NoneMode
                 THEN IF FormatFails(d.fmt, m.value) THEN Raise("TypeError")
                      ELSE [err |-> "", ops |-> <<Ev("write", command)>>,
                            poll |-> FALSE]
                 ELSE IF f.set_sync \in KnownModes
                 THEN IF FormatFails(d.fmt, m.value) THEN Raise("TypeError")
                      ELSE Proceed(write_sync(command, f.set_sync))
                 ELSE Raise("InvalidConfiguration")

\* Instrument.control.fset up to the first wait
control_fset(f, v) ==
    LET d == Desc(f.base)
    IN  IF ValidatorRejects(d, v) THEN Raise("InvalidValue")
        ELSE IF SetProcessFails(d, v) THEN Raise("TypeError")
        ELSE LET m == Encode(d, SetProcess(d, v))
                 command == SET_PREFIX \o Format(d.fmt, m.value)
             IN  IF m.err # "" THEN Raise(m.err)
                 ELSE IF f.set_sync = NoneMode
                 THEN IF FormatFails(d.fmt, m.value) THEN Raise("TypeError")
                      ELSE [err |-> "", ops |-> <<Ev("write", command)>>,
                            poll |-> FALSE]
                 ELSE IF f.set_sync \in KnownModes
                 THEN IF FormatFails(d.fmt, m.value) THEN Raise("TypeError")
                      ELSE Proceed(write_sync(command, f.set_sync))
                 ELSE Raise("InvalidConfiguration")

\* mutant: the setting ignores its sync_method and writes directly
setting_fset_unsynchronised(f, v) ==
    LET d == Desc(f.base)
    IN  IF ValidatorRejects(d, v) THEN Raise("InvalidValue")
        ELSE IF SetProcessFails(d, v) THEN Raise("TypeError")
        ELSE LET m == Encode(d, SetProcess(d, v))
                 command == SET_PREFIX \o Format(d.fmt, m.value)
             IN  IF m.err # "" THEN Raise(m.err)
                 ELSE IF FormatFails(d.fmt, m.value) THEN Raise("TypeError")
                 ELSE [err |-> "", ops |-> <<Ev("write", command)>>,
                       poll |-> FALSE]

\* Instrument.setting.fset up to the first wait
setting_fset(f, v) ==
    LET d == Desc(f.base)
    IN  IF ValidatorRejects(d, v) THEN Raise("InvalidValue")
        ELSE IF SetProcessFails(d, v) THEN Raise("TypeError")
        ELSE LET m == Encode(d, SetProcess(d, v))
                 command == SET_PREFIX \o Format(d.fmt, m.value)
             IN  IF m.err # "" THEN Raise(m.err)
                 ELSE IF f.set_sync = NoneMode
                 THEN IF FormatFails(d.fmt, m.value) THEN Raise("TypeError")
                      ELSE [err |-> "", ops |-> <<Ev("write", command)>>,
                            poll |-> FALSE]
                 ELSE IF f.set_sync \in KnownModes
                 THEN IF FormatFails(d.fmt, m.value) THEN Raise("TypeError")
                      ELSE Proceed(write_sync(command, f.set_sync))
                 ELSE Raise("InvalidConfiguration")

\* mutant: measurement returns property(fget, fset) as control does
HasSetter_always(kind) == TRUE

\* property(fget, fset) for control and setting, property(fget) for
\* measurement: assigning to a property without a setter is an
\* AttributeError raised by the property itself
HasSetter(kind) == kind \in {"control", "setting"}

\* mutant: a name that is not known is taken as no sync method
control_fget_falls_back(f) ==
    IF f.get_sync \in KnownModes
    THEN Proceed(ask_sync(GET_COMMAND, f.get_sync))
    ELSE [err |-> "", ops |-> <<Ev("values", GET_COMMAND)>>, poll |-> FALSE]

\* Instrument.control.fget and Instrument.measurement.fget up to the first
\* wait (command_process is the identity)
control_fget(f) ==
    IF f.get_sync = NoneMode
    THEN [err |-> "", ops |-> <<Ev("values", GET_COMMAND)>>, poll |-> FALSE]
    ELSE IF f.get_sync \in KnownModes
    THEN Proceed(ask_sync(GET_COMMAND, f.get_sync))
    ELSE Raise("InvalidConfiguration")

measurement_fget(f) ==
    IF f.get_sync = NoneMode
    THEN [err |-> "", ops |-> <<Ev("values", GET_COMMAND)>>, poll |-> FALSE]
    ELSE IF f.get_sync \in KnownModes
    THEN Proceed(ask_sync(GET_COMMAND, f.get_sync))
    ELSE Raise("InvalidConfiguration")

\* Instrument.setting.fget
setting_fget == Raise("WriteOnlyField")

\* assigning to the property: its fset, or the AttributeError of a property
\* that has none
property_set(f, v) ==
    IF ~HasSetter(f.kind) THEN Raise("ReadOnlyField")
    ELSE IF f.kind = "setting" THEN setting_fset(f, v)
    ELSE control_fset(f, v)

\* Adapter.values(command): the reply split on ',' and cast to float, a
\* token that cannot be cast kept as text
adapter_values(reply) == values_sync(reply, ",", "float")

\* results
RNone == [kind |-> "none", items |-> <<>>]
RScalar(v) == [kind |-> "scalar", items |-> <<v>>]
RList(vs) == [kind |-> "list", items |-> vs]
Outcome(ret, err) == [ret |-> ret, err |-> err]

\* lines 271-286 and 355-369: from the values read to the value returned
Decode(d, inv, vals) ==
    IF Len(vals) = 1
    THEN LET value == vals[1]
         IN  IF ~d.map_values THEN Outcome(RScalar(value), "")
             ELSE IF d.dkind = "list"
             THEN IF value.t = "str" /\ ~IntOk(value.s)
                  THEN Outcome(RNone, "ValueError")
                  ELSE LET i == IF value.t = "str" THEN PyInt(value.s).n
                                ELSE Trunc(value)
                       IN  IF i < Len(d.values)
                           THEN Outcome(RScalar(d.values[i + 1]), "")
                           ELSE Outcome(RNone, "IndexError")
             ELSE IF d.dkind = "dict"
             THEN IF DictHas(inv, value)
                  THEN Outcome(RScalar(DictGet(inv, value)), "")
                  ELSE Outcome(RNone, "KeyError")
             ELSE Outcome(RNone, "UnsupportedDomain")
    ELSE Outcome(RList(vals), "")

\* --------------------------------------------------------- FakeInstrument
\* the set_command a descriptor is declared with: a prefix and its format
\* specifier
SetCommand(d) ==
    SET_PREFIX \o (IF d.fmt = "%d" THEN <<"%", "d">> ELSE <<"%", "s">>)

\* characters of the commands that the pattern's class [\w.#-+ *] takes
\* and the conversion characters that end a specifier
SpecifierClass == {"S", "d", "s", " ", "%"}
SpecifierEnd == {"d", "s", "%"}

\* re.search(fmt_spec_pattern, set_command): from the first '%' the longest
\* run of class characters that a conversion character ends; '' when the
\* command has no '%'
FormatSpecifier(set_command) ==
    LET at == FindChar(set_command, "%")
        ends == { j \in (at + 1)..Len(set_command) :
                    /\ set_command[j] \in SpecifierEnd
                    /\ \A k \in (at + 1)..(j - 1) :
                         set_command[k] \in SpecifierClass }
    IN  IF at = 0 \/ ends = {} THEN <<>>
        ELSE SubSeq(set_command, at,
                    CHOOSE j \in ends : \A k \in ends : k <= j)

\* format_specifier % value
FakeFormatFails(spec, v) ==
    spec \notin {<<"%", "d">>, <<"%", "s">>} \/ (spec = <<"%", "d">> /\ ~IsNum(v))
FakeFormat(spec, v) ==
    Format(IF spec = <<"%", "d">> THEN "%d" ELSE "%s", v)

\* mutant: the fake control sends the value without validating it
FakeInstrument_control_fset_unvalidated(f, v) ==
    LET d == Desc(f.base)
        spec == FormatSpecifier(SetCommand(d))
    IN  IF FakeFormatFails(spec, v) THEN Raise("TypeError")
        ELSE [err |-> "", ops |-> <<Ev("write", FakeFormat(spec, v))>>,
              poll |-> FALSE]

\* FakeInstrument.control: Instrument.control's fset with
\* set_command = format_specifier and no sync method
FakeInstrument_control_fset(f, v) ==
    LET d == Desc(f.base)
        spec == FormatSpecifier(SetCommand(d))
    IN  IF ValidatorRejects(d, v) THEN Raise("InvalidValue")
        ELSE IF SetProcessFails(d, v) THEN Raise("TypeError")
        ELSE LET m == Encode(d, SetProcess(d, v))
             IN  IF m.err # "" THEN Raise(m.err)
                 ELSE IF FakeFormatFails(spec, m.value) THEN Raise("TypeError")
                 ELSE [err |-> "",
                       ops |-> <<Ev("write", FakeFormat(spec, m.value))>>,
                       poll |-> FALSE]

\* FakeInstrument.control: Instrument.control's fget with get_command = ""
FakeInstrument_control_fget ==
    [err |-> "", ops |-> <<Ev("values", <<>>)>>, poll |-> FALSE]

\* FakeAdapter, the in-memory store in the transport's place: a write puts
\* the command into the store, values("") decodes what the store holds and
\* leaves it there
FakeAdapter_write(held, command) == command
FakeAdapter_values(held) == adapter_values(held)


\* ------------------------------------------------------------------ inputs
RECURSIVE StringsUpTo(_, _)
StringsUpTo(alphabet, n) ==
    IF n = 0 THEN {<<>>}
    ELSE LET shorter == StringsUpTo(alphabet, n - 1)
         IN  shorter \cup {Append(s, c) : s \in shorter, c \in alphabet}

Alphabet == {"0", "1", "a", ".", ",", ";", " "}

\* the replies of the spec's examples, with and without completion marker
NamedReplies ==
    { <<"3", ".", "1", "4", ";", "1">>,
      <<"1", ",", "0", ",", "a", "b", "c">>,
      <<"1", ",", "0", ",", "a", "b", "c", ";", "1">> }

\* replies to ask_sync and values_sync called directly
Replies == StringsUpTo(Alphabet, MaxReplyLen) \cup NamedReplies

\* replies to a field's get command and to a polled command
FieldReplies ==
    { <<>>, <<"0">>, <<"1">>, <<"2">>, <<"3">>, <<"1", ".", "0">>, <<"a">>,
      <<"b">>, <<"z">>, <<"1", ";", "1">>, <<"2", ";", "1">>,
      <<"a", ";", "1">>, <<"1", ",", "2">>, <<"1", ",", "2", ";", "1">> }

Commands == { <<"M", "?">>, <<"R">> }
Separators == {",", ";"}
Casts == {"float", "bool", "int", "str"}
StbValues == {0, 32, 64}
Masks == {32, 96}

\* ------------------------------------------------------------------- state
VARIABLES
    pc,       \* "idle", "done", or the position inside stb_polling
    call,     \* the call in progress or just finished, with its arguments
    log,      \* adapter calls (and check_errors calls) made by that call
    start,    \* stb_polling: start = time.time()
    clock,    \* time.time()
    stb,      \* stb_polling: the status byte read last
    reads,    \* number of status bytes read by that call
    result,   \* the text the call's read (or ask, or values) returned
    ret,      \* what the call returned
    err,      \* the error the call raised, "" for none
    inverse,  \* per descriptor, the inverse dict bound with the accessor
    store,    \* FakeInstrument: what its adapter holds in memory
    accepted, \* FakeInstrument: the field and value of the last set that
              \* reached the adapter
    unread    \* responses the instrument has produced for the queries sent
              \* to it, less the reads made, over the calls that returned

vars == <<pc, call, log, start, clock, stb, reads, result, ret, err, inverse,
          store, accepted, unread>>

Call(op, f, arg, cmd, mode, sep, cast, timeout, interval, mask) ==
    [op |-> op, f |-> f, arg |-> arg, cmd |-> cmd, mode |-> mode, sep |-> sep,
     cast |-> cast, timeout |-> timeout, interval |-> interval, mask |-> mask]

NoCall == Call("none", NoField, NoValue, <<>>, NoneMode, ",", "float", 0, 1, 32)

\* no set has reached the fake adapter yet
NoAccepted == [base |-> "none", value |-> NoValue]

Init ==
    /\ pc = "idle"
    /\ call = NoCall
    /\ log = <<>>
    /\ start = 0
    /\ clock = 0
    /\ stb = 0
    /\ reads = 0
    /\ result = <<>>
    /\ ret = RNone
    /\ err = ""
    /\ inverse = [b \in BaseNames |-> BoundInverse(b)]
    /\ store = <<>>
    /\ accepted = NoAccepted
    /\ unread = 0

\* --------------------------------------------------- the end of each call
\* whether the call's mode makes ask_sync read after polling
ReadsAfterPoll(c) == c.op \in {"ask_sync", "values_sync", "fget"}

\* what follows the wait: the adapter calls still made and the outcome.
\* `polled` says the wait was stb_polling, `reply` is what the read (or ask,
\* or values) returned, `status` what stb_polling returned.
After(c, polled, status, reply) ==
    LET d == Desc(c.f.base)
        rd == IF polled /\ ReadsAfterPoll(c) THEN ask_sync_after_poll ELSE <<>>
    IN  CASE c.op = "stb_polling" ->
               [ops |-> <<>>, out |-> Outcome(RScalar(VInt(status)), "")]
          [] c.op = "write_sync" ->
               [ops |-> <<>>, out |-> Outcome(RNone, "")]
          [] c.op = "ask_sync" ->
               [ops |-> rd,
                out |-> Outcome(RScalar(VStr(ask_sync_result(reply))), "")]
          [] c.op = "values_sync" ->
               [ops |-> rd,
                out |-> Outcome(RList(values_sync(ask_sync_result(reply),
                                                  c.sep, c.cast)), "")]
          [] c.op = "fget" ->
               [ops |-> rd \o (IF d.check_get_errors
                               THEN <<Ev("check_errors", <<>>)>> ELSE <<>>),
                out |-> Decode(d, inverse[c.f.base],
                               IF c.mode = NoneMode THEN adapter_values(reply)
                               ELSE values_sync(ask_sync_result(reply),
                                                ",", "float"))]
          [] OTHER ->
               [ops |-> IF d.check_set_errors
                        THEN <<Ev("check_errors", <<>>)>> ELSE <<>>,
                out |-> Outcome(RNone, "")]

\* the replies the transport may give to this call's read
ReplyChoices(c) ==
    IF c.op \in {"stb_polling", "write_sync", "fset"} THEN {<<>>}
    ELSE IF c.op = "fget" \/ c.mode = "stb_polling" THEN FieldReplies
    ELSE Replies

Finish(c, ops, polled, status) ==
    \E reply \in ReplyChoices(c) :
        LET a == After(c, polled, status, reply)
        IN  /\ log' = ops \o a.ops
            /\ result' = reply
            /\ ret' = a.out.ret
            /\ err' = a.out.err
            /\ pc' = "done"

\* a call starts: it fails at once, enters stb_polling, or runs to its end
Begin(c, pre) ==
    /\ pc = "idle"
    /\ call' = c
    /\ reads' = 0
    /\ stb' = 0
    /\ UNCHANGED <<inverse, store, accepted, unread>>
    /\ IF pre.err # ""
       THEN /\ pc' = "done" /\ err' = pre.err /\ ret' = RNone /\ log' = pre.ops
            /\ start' = 0 /\ clock' = 0 /\ result' = <<>>
       ELSE IF pre.poll
       THEN /\ pc' = "poll_read" /\ err' = "" /\ ret' = RNone /\ log' = pre.ops
            /\ result' = <<>>
            /\ \E t \in 0..MaxStart : start' = t /\ clock' = t
       ELSE /\ Finish(c, pre.ops, FALSE, 0)
            /\ start' = 0 /\ clock' = 0

PollArgs == (0..MaxTimeout) \X (1..MaxInterval) \X Masks

\* ------------------------------------------------------------ the calls
StbPolling ==
    \E p \in PollArgs :
        /\ pc = "idle"
        /\ Begin(Call("stb_polling", NoField, NoValue, <<>>, "stb_polling", ",",
                      "float", p[1], p[2], p[3]),
                 [err |-> "", ops |-> <<>>, poll |-> TRUE])

WriteSync ==
    \E cmd \in Commands, m \in Modes, p \in PollArgs :
        /\ m # "stb_polling" => p = <<0, 1, 32>>
        /\ Begin(Call("write_sync", NoField, NoValue, cmd, m, ",", "float",
                      p[1], p[2], p[3]),
                 Proceed(write_sync(cmd, m)))

AskSync ==
    \E cmd \in Commands, m \in Modes, p \in PollArgs :
        /\ m # "stb_polling" => p = <<0, 1, 32>>
        /\ Begin(Call("ask_sync", NoField, NoValue, cmd, m, ",", "float",
                      p[1], p[2], p[3]),
                 Proceed(ask_sync(cmd, m)))

ValuesSync ==
    \E cmd \in Commands, m \in Modes, sep \in Separators, cast \in Casts :
        /\ pc = "idle"
        /\ Begin(Call("values_sync", NoField, NoValue, cmd, m, sep, cast, 1, 1, 32),
                 Proceed(ask_sync(cmd, m)))

FieldCall(op, f, v, mode) ==
    LET d == Desc(f.base)
    IN  Call(op, f, v, IF op = "fget" THEN GET_COMMAND ELSE <<>>, mode, ",", "float", d.timeout, d.interval, d.mask)

ControlGet ==
    \E f \in Fields :
        /\ f.kind = "control"
        /\ Begin(FieldCall("fget", f, NoValue, f.get_sync), control_fget(f))

MeasurementGet ==
    \E f \in Fields :
        /\ f.kind = "measurement"
        /\ Begin(FieldCall("fget", f, NoValue, f.get_sync), measurement_fget(f))

SettingGet ==
    \E f \in Fields :
        /\ f.kind = "setting"
        /\ Begin(FieldCall("fget", f, NoValue, f.get_sync), setting_fget)

ControlSet ==
    \E f \in Fields, v \in SetValues :
        /\ f.kind = "control"
        /\ Begin(FieldCall("fset", f, v, f.set_sync), property_set(f, v))

SettingSet ==
    \E f \in Fields, v \in SetValues :
        /\ f.kind = "setting"
        /\ Begin(FieldCall("fset", f, v, f.set_sync), property_set(f, v))

MeasurementSet ==
    \E f \in Fields, v \in SetValues :
        /\ f.kind = "measurement"
        /\ Begin(FieldCall("fset", f, v, f.set_sync), property_set(f, v))

\* ---------------------------------------------------------- stb_polling
\* stb = self.read_stb()
PollReadStb ==
    /\ pc = "poll_read"
    /\ \E s \in StbValues : stb' = s
    /\ reads' = reads + 1
    /\ log' = Append(log, Ev("read_stb", <<>>))
    /\ pc' = "poll_sleep"
    /\ UNCHANGED <<call, start, clock, result, ret, err, inverse, store, accepted, unread>>

\* sleep(interval); elapsed = time.time() - start
PollSleep ==
    /\ pc = "poll_sleep"
    /\ clock' = clock + call.interval
    /\ pc' = "poll_check"
    /\ UNCHANGED <<call, log, start, stb, reads, result, ret, err, inverse, store, accepted, unread>>

\* mutant: elapsed is taken before the sleep
Elapsed_before_sleep == clock - call.interval - start

\* elapsed = time.time() - start
Elapsed == clock - start

\* mutant: any non-zero status byte ends the wait
MaskHit_any_bit == stb # 0

\* if stb & mask
MaskHit == BitAnd(stb, call.mask) # 0

\* mutant: one more interval is let pass before the timeout is raised
TimedOut_one_interval_late == Elapsed > call.timeout + call.interval

\* if elapsed > timeout
TimedOut == Elapsed > call.timeout

\* if stb & mask: break ... return stb, and the rest of the calling code
PollBreak ==
    /\ pc = "poll_check"
    /\ MaskHit
    /\ Finish(call, log, TRUE, stb)
    /\ UNCHANGED <<call, start, clock, stb, reads, inverse, store, accepted, unread>>

\* mutant: the exception reaches the caller only after the calling code
\* has gone on to its read and its check_errors
PollTimeout_after_the_rest ==
    /\ pc = "poll_check"
    /\ ~MaskHit
    /\ TimedOut
    /\ err' = "SynchronizationTimeout"
    /\ log' = log \o After(call, TRUE, stb, <<>>).ops
    /\ pc' = "done"
    /\ UNCHANGED <<call, start, clock, stb, reads, result, ret, inverse, store, accepted, unread>>

\* if elapsed > timeout: raise Exception("STB polling timeout")
PollTimeout ==
    /\ pc = "poll_check"
    /\ ~MaskHit
    /\ TimedOut
    /\ err' = "SynchronizationTimeout"
    /\ pc' = "done"
    /\ UNCHANGED <<call, log, start, clock, stb, reads, result, ret, inverse, store, accepted, unread>>

\* mutant: the next iteration goes to its sleep without a status read
PollAgain_without_read ==
    /\ pc = "poll_check"
    /\ ~MaskHit
    /\ ~TimedOut
    /\ pc' = "poll_sleep"
    /\ UNCHANGED <<call, log, start, clock, stb, reads, result, ret, err, inverse, store, accepted, unread>>

\* while True
PollAgain ==
    /\ pc = "poll_check"
    /\ ~MaskHit
    /\ ~TimedOut
    /\ pc' = "poll_read"
    /\ UNCHANGED <<call, log, start, clock, stb, reads, result, ret, err, inverse, store, accepted, unread>>

\* mutant: what was bound with the accessors does not outlive the call
Return_forgets_inverse ==
    /\ pc = "done"
    /\ pc' = "idle"
    /\ call' = NoCall
    /\ log' = <<>>
    /\ start' = 0
    /\ clock' = 0
    /\ stb' = 0
    /\ reads' = 0
    /\ result' = <<>>
    /\ ret' = RNone
    /\ err' = ""
    /\ inverse' = [b \in BaseNames |-> <<>>]
    /\ UNCHANGED <<store, accepted, unread>>

\* the call is over: its arguments, locals and result are gone, the
\* instrument keeps what was bound with its accessors
Return ==
    /\ pc = "done"
    /\ pc' = "idle"
    /\ call' = NoCall
    /\ log' = <<>>
    /\ start' = 0
    /\ clock' = 0
    /\ stb' = 0
    /\ reads' = 0
    /\ result' = <<>>
    /\ ret' = RNone
    /\ err' = ""
    /\ UNCHANGED <<inverse, store, accepted, unread>>

\* -------------------------------------------- calls on a FakeInstrument
FakeField(b) ==
    [base |-> b, kind |-> "control", get_sync |-> NoneMode,
     set_sync |-> NoneMode]

\* instrument.field = v on a FakeInstrument
FakeControlSet ==
    \E b \in BaseNames, v \in SetValues :
        LET f == FakeField(b)
            d == Desc(b)
            pre == FakeInstrument_control_fset(f, v)
        IN  /\ pc = "idle"
            /\ pc' = "done"
            /\ call' = FieldCall("fake_fset", f, v, NoneMode)
            /\ err' = pre.err
            /\ ret' = RNone
            /\ result' = <<>>
            /\ IF pre.err # ""
               THEN log' = <<>> /\ UNCHANGED <<store, accepted>>
               ELSE /\ log' = pre.ops \o (IF d.check_set_errors
                                           THEN <<Ev("check_errors", <<>>)>>
                                           ELSE <<>>)
                    /\ store' = FakeAdapter_write(store, pre.ops[1].arg)
                    /\ accepted' = [base |-> b, value |-> v]
            /\ UNCHANGED <<start, clock, stb, reads, inverse, unread>>

\* instrument.field on a FakeInstrument
FakeControlGet ==
    \E b \in BaseNames :
        LET f == FakeField(b)
            d == Desc(b)
            out == Decode(d, inverse[b], FakeAdapter_values(store))
        IN  /\ pc = "idle"
            /\ pc' = "done"
            /\ call' = FieldCall("fake_fget", f, NoValue, NoneMode)
            /\ log' = FakeInstrument_control_fget.ops \o
                      (IF d.check_get_errors
                       THEN <<Ev("check_errors", <<>>)>> ELSE <<>>)
            /\ result' = store
            /\ ret' = out.ret
            /\ err' = out.err
            /\ UNCHANGED <<start, clock, stb, reads, inverse, store, accepted, unread>>

Next ==
    \/ StbPolling
    \/ WriteSync
    \/ AskSync
    \/ ValuesSync
    \/ ControlGet
    \/ MeasurementGet
    \/ SettingGet
    \/ ControlSet
    \/ SettingSet
    \/ MeasurementSet
    \/ PollReadStb
    \/ PollSleep
    \/ PollBreak
    \/ PollTimeout
    \/ PollAgain
    \/ Return

Spec == Init /\ [][Next]_vars

\* the statements of stb_polling, which run on once the loop is entered:
\* read_stb and sleep return, and the tests go one way or the other
PollStep ==
    \/ PollReadStb
    \/ PollSleep
    \/ PollBreak
    \/ PollTimeout
    \/ PollAgain

LiveSpec == Spec /\ WF_vars(PollStep)

\* ------------------------------------------ the responses of the device
\* a command that holds a '?' is a query, alone or as part of a compound
\* command, and the device answers each written text that holds a query
\* with one response
IsQuery(command) == \E i \in 1..Len(command) : command[i] = "?"

Produced(ops) ==
    Cardinality({i \in 1..Len(ops) :
                   ops[i].op \in {"write", "ask", "values"} /\ IsQuery(ops[i].arg)})

\* read, and ask and values with their read, each take one response
Consumed(ops) ==
    Cardinality({i \in 1..Len(ops) : ops[i].op \in {"read", "ask", "values"}})

\* the call returns, and what it sent and read stays with the transport
EngineReturn ==
    /\ pc = "done"
    /\ unread + Produced(log) - Consumed(log) \in (0 - MaxUnread)..MaxUnread
    /\ unread' = unread + Produced(log) - Consumed(log)
    /\ pc' = "idle"
    /\ call' = NoCall
    /\ log' = <<>>
    /\ start' = 0
    /\ clock' = 0
    /\ stb' = 0
    /\ reads' = 0
    /\ result' = <<>>
    /\ ret' = RNone
    /\ err' = ""
    /\ UNCHANGED <<inverse, store, accepted>>

\* a session of write_sync and ask_sync calls with the device's responses
\* counted
EngineNext ==
    \/ WriteSync
    \/ AskSync
    \/ PollStep
    \/ EngineReturn

EngineSpec == Init /\ [][EngineNext]_vars

\* a session with a FakeInstrument
FakeNext ==
    \/ FakeControlSet
    \/ FakeControlGet
    \/ Return

FakeSpec == Init /\ [][FakeNext]_vars


\* ================================================================ claims
NoTransportOp == \A i \in 1..Len(log) : log[i].op \notin TransportOps
IsSetOn(kinds) == pc # "idle" /\ call.op = "fset" /\ call.f.kind \in kinds
IsGetOn(kinds) == pc # "idle" /\ call.op = "fget" /\ call.f.kind \in kinds
Polled == pc # "idle" /\ reads > 0

\* C1: a write, through a control or setting field whose validator rejects
\* values outside its domain, of a value that is not in the domain fails
\* with InvalidValue at once and makes no call on the transport, whatever
\* the field's synchronisation mode.
C1_InvalidValueSendsNothing ==
    ( /\ IsSetOn({"control", "setting"})
      /\ Desc(call.f.base).validator = "strict"
      /\ ~PyIn(call.arg, Members(Desc(call.f.base))) )
    => (pc = "done" /\ err = "InvalidValue" /\ NoTransportOp /\ reads = 0)

C1_Witness ==
    /\ IsSetOn({"control"})
    /\ call.f.base = "proc"
    /\ call.mode = "stb_polling"
    /\ call.arg = VInt(0)
    /\ err = "InvalidValue"

\* C2: a polling wait none of whose status bytes meets the mask fails with
\* SynchronizationTimeout, after at least `timeout` and at most
\* `timeout + interval` since the loop started: the failure comes with an
\* elapsed time in that window, with every sleep having advanced the clock
\* by `interval`, and the loop never reads again once the timeout is past.
C2_TimeoutWindow ==
    /\ err = "SynchronizationTimeout" =>
         /\ pc = "done"
         /\ BitAnd(stb, call.mask) = 0
         /\ clock - start = reads * call.interval
         /\ clock - start >= call.timeout
         /\ clock - start <= call.timeout + call.interval
    /\ pc = "poll_read" => clock - start <= call.timeout
    /\ (pc = "done" /\ Polled /\ BitAnd(stb, call.mask) = 0) =>
         err = "SynchronizationTimeout"

\* timeout 0.3 s and interval 0.05 s in ticks of 0.05 s: failure at 0.35 s
C2_Witness ==
    /\ err = "SynchronizationTimeout"
    /\ call.timeout = 6
    /\ call.interval = 1
    /\ clock - start = 7

\* C3: the polling wait ends in success exactly when a status byte met the
\* mask: no status byte is read after one that met the mask, the wait
\* returns that status byte, and a status byte that meets the mask ends the
\* wait in success also when the timeout has already passed.
C3_SucceedsOnMask ==
    /\ (pc = "poll_read" /\ reads > 0) => BitAnd(stb, call.mask) = 0
    /\ (pc = "done" /\ Polled) =>
         (err # "SynchronizationTimeout" <=> BitAnd(stb, call.mask) # 0)
    /\ (pc = "done" /\ call.op = "stb_polling" /\ err = "") =>
         /\ ret = RScalar(VInt(stb))
         /\ BitAnd(stb, call.mask) # 0
         /\ Len(log) = reads

C3_Witness ==
    /\ pc = "done"
    /\ call.op = "stb_polling"
    /\ err = ""
    /\ reads >= 2
    /\ clock - start > call.timeout
    /\ stb = 64

\* C4: every write-and-wait in status-polling mode first writes the
\* status-enable command, queries the enable register, queries the
\* event-status register, then writes the command with the completion
\* trigger (not a query) appended, and only then reads a status byte.
ReachedEngine ==
    /\ pc # "idle"
    /\ \/ call.op \in {"write_sync", "ask_sync", "values_sync"}
       \/ call.op = "fget" /\ err # "WriteOnlyField"
       \/ call.op = "fset" /\ err \in {"", "SynchronizationTimeout"}

C4_HandshakeOrder ==
    (ReachedEngine /\ call.mode = "stb_polling") =>
        /\ Len(log) >= 4
        /\ log[1] = Ev("write", <<"*", "E", "S", "E", " ", "1">>)
        /\ log[2] = Ev("ask", <<"*", "E", "S", "E", "?">>)
        /\ log[3] = Ev("ask", <<"*", "E", "S", "R", "?">>)
        /\ log[4].op = "write"
        /\ Len(log[4].arg) >= 5
        /\ SubSeq(log[4].arg, Len(log[4].arg) - 4, Len(log[4].arg))
             = <<";", "*", "O", "P", "C">>
        /\ call.op # "fset" =>
             SubSeq(log[4].arg, 1, Len(log[4].arg) - 5) = call.cmd
        /\ call.op = "fset" =>
             SubSeq(log[4].arg, 1, 2) = <<"S", " ">>
        /\ Len(log) >= 5 => log[5].op = "read_stb"
        /\ pc = "done" => reads >= 1
        /\ Cardinality({i \in 1..Len(log) : log[i].op = "read_stb"}) = reads

C4_Witness ==
    /\ pc = "done"
    /\ call.op = "write_sync"
    /\ call.mode = "stb_polling"
    /\ err = ""
    /\ Len(log) = 6

\* C5: in completion-query mode ask-and-wait makes exactly one write, of
\* the command with the completion query appended, and exactly one read,
\* and returns the part of the reply before its first ';': "3.14;1" gives
\* "3.14".
C5_CompletionQueryPayload ==
    (pc = "done" /\ call.op = "ask_sync" /\ call.mode = "opc_query") =>
        /\ err = ""
        /\ log = << Ev("write", call.cmd \o <<";", "*", "O", "P", "C", "?">>),
                    Ev("read", <<>>) >>
        /\ ret.kind = "scalar"
        /\ LET payload == ret.items[1].s
               n == Len(payload)
           IN  /\ ret.items[1].t = "str"
               /\ \A i \in 1..n : payload[i] # ";"
               /\ n <= Len(result)
               /\ SubSeq(result, 1, n) = payload
               /\ n < Len(result) => result[n + 1] = ";"

C5_Witness ==
    /\ pc = "done"
    /\ call.op = "ask_sync"
    /\ call.mode = "opc_query"
    /\ result = <<"3", ".", "1", "4", ";", "1">>
    /\ ret = RScalar(VStr(<<"3", ".", "1", "4">>))


\* C6: write-and-wait and ask-and-wait called with a mode name that is not
\* a recognised mode fail with InvalidConfiguration and write no command.
C6_UnknownModeFailsFast ==
    ( /\ pc = "done"
      /\ call.op \in {"write_sync", "ask_sync"}
      /\ call.mode \notin {"opc_query", "stb_polling", "None"} )
    => /\ err = "InvalidConfiguration"
       /\ \A i \in 1..Len(log) : log[i].op \notin {"write", "ask"}

\* the text a set call substituted into its set command
SetArgText ==
    LET w == IF call.mode = "stb_polling" THEN log[4].arg ELSE log[1].arg
        cut == IF call.mode = "stb_polling" THEN 5
               ELSE IF call.mode = "opc_query" THEN 6 ELSE 0
    IN  SubSeq(w, 3, Len(w) - cut)

SetWasSent ==
    IsSetOn({"control", "setting"}) /\ err \in {"", "SynchronizationTimeout"}

\* the reply to a get is `text`, with a completion marker in opc_query mode
ReplyCarries(text) ==
    \/ result = text
    \/ call.mode = "opc_query" /\ result = text \o <<";", "1">>

GetIsDone ==
    /\ pc = "done"
    /\ IsGetOn({"control", "measurement"})
    /\ call.mode \in {"None", "opc_query", "stb_polling"}
    /\ err # "SynchronizationTimeout"

\* C7: with mapping over an ordered domain the set path substitutes a
\* position of the value (counted from 0) into the command, and the get
\* path turns the position the set path sends for a member v back into a
\* value equal to v, duplicates in the domain included.
C7_OrderedRoundTrip ==
    LET d == Desc(call.f.base)
    IN  /\ ( /\ SetWasSent
             /\ d.map_values /\ d.dkind = "list"
             /\ d.set_process = "identity" )
           => \E p \in 1..Len(d.values) :
                 /\ PyEq(d.values[p], call.arg)
                 /\ SetArgText = NatToDigits(p - 1)
        /\ (GetIsDone /\ d.map_values /\ d.dkind = "list")
           => \A p \in 1..Len(d.values) :
                 ReplyCarries(Format(d.fmt, Encode(d, d.values[p]).value))
                 => /\ err = ""
                    /\ ret.kind = "scalar"
                    /\ PyEq(ret.items[1], d.values[p])

C7_Witness ==
    /\ GetIsDone
    /\ call.f.kind = "control"
    /\ call.f.base = "list"
    /\ result = <<"0">>
    /\ ret = RScalar(VInt(5))

NoDuplicateCodes(pairs) ==
    \A i, j \in 1..Len(pairs) : PyEq(pairs[i][2], pairs[j][2]) => i = j

C9_CodecKeepsEveryToken ==
    (pc = "done" /\ call.op = "values_sync" /\ err = "") =>
        LET text == PyStrip(PySplit(result, ";")[1])
            toks == PySplit(text, call.sep)
        IN  /\ ret.kind = "list"
            /\ Len(ret.items) = Len(toks)
            /\ Len(toks) =
                 1 + Cardinality({j \in 1..Len(text) : text[j] = call.sep})
            /\ \A i \in 1..Len(toks) :
                 LET e == ret.items[i]
                     tok == toks[i]
                 IN  /\ e.t = "str" => e.s = tok
                     /\ call.cast = "bool" =>
                          IF FloatOk(tok)
                          THEN /\ e.t = "bool"
                               /\ e.n = 1 <=>
                                    \E j \in 1..Len(tok) :
                                        IsDigit(tok[j]) /\ tok[j] # "0"
                          ELSE e.t = "str"
                     /\ call.cast = "float" =>
                          IF FloatOk(tok) THEN e = PyFloat(tok) ELSE e.t = "str"
                     /\ call.cast = "int" =>
                          IF IntOk(tok) THEN e = PyInt(tok) ELSE e.t = "str"
                     /\ call.cast = "str" => e.t = "str"
            /\ ( /\ result = <<"1", ",", "0", ",", "a", "b", "c">>
                 /\ call.sep = ","
                 /\ call.cast = "bool" )
               => ret.items = <<VBool(TRUE), VBool(FALSE), VStr(<<"a", "b", "c">>)>>

C9_Witness ==
    /\ pc = "done"
    /\ call.op = "values_sync"
    /\ call.sep = ","
    /\ call.cast = "bool"
    /\ result = <<"1", ",", "0", ",", "a", "b", "c">>
    /\ ret = RList(<<VBool(TRUE), VBool(FALSE), VStr(<<"a", "b", "c">>)>>)

\* C10: a write to a measurement field fails with ReadOnlyField and makes
\* no call on the transport, whatever the value and the get mode.
C10_MeasurementIsReadOnly ==
    IsSetOn({"measurement"}) =>
        /\ pc = "done"
        /\ err = "ReadOnlyField"
        /\ log = <<>>
        /\ reads = 0

C10_Witness ==
    /\ IsSetOn({"measurement"})
    /\ call.f.get_sync = "stb_polling"
    /\ call.f.base = "plain"
    /\ call.arg = VInt(1)
    /\ err = "ReadOnlyField"

\* the status reads of a call that polled `n` times
StatusReads(n) == [i \in 1..n |-> Ev("read_stb", <<>>)]

\* C11: reading a setting fails with WriteOnlyField and makes no call on
\* the transport; assigning to a setting gives what Instrument.control's
\* fset gives for the same descriptor, value and sync_method: the same
\* error before anything is sent, or else the same adapter calls, the same
\* status reads while polling, and the same check_errors call at the end.
C11_SettingIsWriteOnly ==
    /\ IsGetOn({"setting"}) =>
         /\ pc = "done"
         /\ err = "WriteOnlyField"
         /\ log = <<>>
         /\ reads = 0
         /\ ret = RNone
    /\ IsSetOn({"setting"}) =>
         LET d == Desc(call.f.base)
             c == control_fset([call.f EXCEPT !.kind = "control"], call.arg)
         IN  IF c.err # ""
             THEN pc = "done" /\ err = c.err /\ log = <<>> /\ reads = 0
             ELSE /\ err \in {"", "SynchronizationTimeout"}
                  /\ reads > 0 => c.poll
                  /\ (pc = "done" /\ c.poll) => reads > 0
                  /\ err = "SynchronizationTimeout" => c.poll
                  /\ ret = RNone
                  /\ log = c.ops \o StatusReads(reads) \o
                           (IF pc = "done" /\ err = "" /\ d.check_set_errors
                            THEN <<Ev("check_errors", <<>>)>> ELSE <<>>)

C11_Witness ==
    /\ pc = "done"
    /\ IsSetOn({"setting"})
    /\ call.f.base = "dict"
    /\ call.mode = "opc_query"
    /\ call.arg = Y
    /\ err = ""
    /\ Len(log) = 3

\* the write that carries a set command, as the call's mode sends it
SetWrite ==
    IF call.mode = "stb_polling" THEN log[4] ELSE log[1]

SetSuffix ==
    IF call.mode = "stb_polling" THEN <<";", "*", "O", "P", "C">>
    ELSE IF call.mode = "opc_query" THEN <<";", "*", "O", "P", "C", "?">>
    ELSE <<>>

\* C12 as stated: set_process is applied to the caller's value first and
\* the validator sees the processed value, so a set fails with InvalidValue
\* exactly when the processed value is outside the domain.
C12_ProcessThenValidate ==
    LET d == Desc(call.f.base)
    IN  ( /\ pc = "done"
          /\ IsSetOn({"control", "setting"})
          /\ d.validator = "strict"
          /\ IsNum(call.arg) )
        => (err = "InvalidValue" <=> ~PyIn(SetProcess(d, call.arg), Members(d)))

\* C12: on the set path of a control or setting the validator is applied
\* to the caller's value first, set_process to the validated value, then
\* (with map_values) the processed value is encoded, and the result is
\* substituted into the set command, which is issued under the set mode;
\* a stage that fails ends the call before anything is sent.
C12_ValidateThenProcess ==
    LET d == Desc(call.f.base)
        v == call.arg
        rejected == d.validator = "strict" /\ ~PyIn(v, Members(d))
        unprocessed == d.set_process = "inc" /\ v.t = "str"
        p == IF d.set_process = "inc" THEN VInt(v.n + 1) ELSE v
        unmapped ==
            /\ d.map_values
            /\ \/ d.dkind = "list" /\ ~PyIn(p, d.values)
               \/ d.dkind = "dict" /\ ~DictHas(d.values, p)
               \/ d.dkind \notin {"list", "dict"}
    IN  IsSetOn({"control", "setting"}) =>
          /\ err = "InvalidValue" <=> rejected
          /\ err = "TypeError" =>
               ~rejected /\ (unprocessed \/ (~unmapped /\ d.fmt = "%d"))
          /\ (~rejected /\ unprocessed) => err = "TypeError"
          /\ err \in {"ValueError", "KeyError", "UnsupportedDomain"} <=>
               (~rejected /\ ~unprocessed /\ unmapped)
          /\ err \notin {"", "SynchronizationTimeout"} =>
               (pc = "done" /\ log = <<>>)
          /\ err \in {"", "SynchronizationTimeout"} =>
               /\ ~rejected /\ ~unprocessed /\ ~unmapped
               /\ call.mode \in {"None", "opc_query", "stb_polling"}
               /\ Len(log) >= (IF call.mode = "stb_polling" THEN 4 ELSE 1)
               /\ SetWrite =
                    Ev("write",
                       <<"S", " ">> \o
                       Format(d.fmt,
                              IF ~d.map_values THEN p
                              ELSE IF d.dkind = "list"
                              THEN VInt(PyIndex(d.values, p))
                              ELSE DictGet(d.values, p)) \o
                       SetSuffix)

\* proc: domain [1, 2], set_process v + 1: 2 is validated, then sent as 3
C12_Witness ==
    /\ pc = "done"
    /\ IsSetOn({"control"})
    /\ call.f.base = "proc"
    /\ call.mode = "None"
    /\ call.arg = VInt(2)
    /\ err = ""
    /\ log[1] = Ev("write", <<"S", " ", "3">>)

AskIsDone ==
    /\ pc = "done"
    /\ call.op = "ask_sync"
    /\ call.mode \in {"None", "opc_query", "stb_polling"}
    /\ err = ""

\* C13 as stated: in each of the three modes the adapter calls of ask_sync
\* are those of write_sync for the same command and mode followed by
\* exactly one more read, and ask_sync returns what that read returned.
C13_AskIsWriteThenOneRead ==
    AskIsDone =>
        /\ WriteAndRead(log) =
             WriteAndRead(write_sync(call.cmd, call.mode).ops) \o
             StatusReads(reads) \o <<Ev("read", <<>>)>>
        /\ ret = RScalar(VStr(result))

\* C13: in stb_polling mode the adapter calls of ask_sync are those of
\* write_sync for the same command followed by exactly one read; without a
\* mode they are the write that write_sync makes and one read (one ask); in
\* opc_query mode they are exactly those of write_sync, one write and one
\* read, with no further read. In each mode ask_sync returns the text of
\* its last read up to the first ';' of that text.
C13_AskVersusWrite ==
    AskIsDone =>
        LET w == write_sync(call.cmd, call.mode).ops
            text == ret.items[1].s
            n == Len(text)
        IN  /\ call.mode = "stb_polling" =>
                 /\ reads >= 1
                 /\ log = w \o StatusReads(reads) \o <<Ev("read", <<>>)>>
            /\ call.mode = "None" =>
                 /\ reads = 0
                 /\ log = <<Ev("ask", call.cmd)>>
                 /\ WriteAndRead(log) = w \o <<Ev("read", <<>>)>>
            /\ call.mode = "opc_query" =>
                 /\ reads = 0
                 /\ log = w
                 /\ Len(log) = 2
            /\ ret.kind = "scalar"
            /\ ret.items[1].t = "str"
            /\ n <= Len(result)
            /\ SubSeq(result, 1, n) = text
            /\ \A i \in 1..n : text[i] # ";"
            /\ n < Len(result) => result[n + 1] = ";"

C13_Witness ==
    /\ AskIsDone
    /\ call.mode = "opc_query"
    /\ call.cmd = <<"M", "?">>
    /\ result = <<"1", ";", "1">>
    /\ Len(log) = 2

\* C14: once stb_polling has raised its timeout the call is over: what it
\* did on the adapter ends with the status read of the last iteration, the
\* command was written once, no reply was read and check_errors was not
\* called, nothing is returned, the caller gets the timeout, and the next
\* thing that happens is the return to the caller.
C14_TimeoutIsTerminal ==
    /\ [](err = "SynchronizationTimeout" =>
            /\ pc = "done"
            /\ call.mode = "stb_polling"
            /\ reads >= 1
            /\ ret = RNone
            /\ result = <<>>
            /\ Len(log) = reads + (IF call.op = "stb_polling" THEN 0 ELSE 4)
            /\ \A i \in 1..Len(log) :
                 /\ log[i].op \notin {"read", "values", "check_errors"}
                 /\ log[i].op = "read_stb" <=> i > Len(log) - reads
                 /\ log[i].op = "write" => i \in {1, 4}
            /\ log[Len(log)].op = "read_stb")
    /\ []((pc = "done" /\ reads > 0 /\ BitAnd(stb, call.mask) = 0) =>
            err = "SynchronizationTimeout")
    /\ [][err = "SynchronizationTimeout" =>
            (pc' = "idle" /\ log' = <<>> /\ reads' = 0)]_vars

\* a get through a control whose check_get_errors is set times out
C14_Witness ==
    /\ err = "SynchronizationTimeout"
    /\ IsGetOn({"control"})
    /\ call.f.base = "dict"
    /\ reads = 2
    /\ Len(log) = 6

InPoll == pc \in {"poll_read", "poll_sleep", "poll_check"}

\* C15: the polling loop reads a status byte before it checks the time for
\* the first time, whatever the timeout, 0 included; in each iteration the
\* status read comes first, the sleep second and the checks third: at a
\* sleep the loop has read once more than it has slept, at a check it has
\* slept as often as it has read, and a timeout is raised only from a check
\* that a read and a sleep precede.
C15_ReadThenSleepThenCheck ==
    /\ [](pc = "poll_read" => clock - start = reads * call.interval)
    /\ [](pc = "poll_sleep" =>
            /\ reads >= 1
            /\ log[Len(log)].op = "read_stb"
            /\ clock - start = (reads - 1) * call.interval)
    /\ [](pc = "poll_check" =>
            /\ reads >= 1
            /\ log[Len(log)].op = "read_stb"
            /\ clock - start = reads * call.interval)
    /\ [](err = "SynchronizationTimeout" =>
            /\ reads >= 1
            /\ clock - start = reads * call.interval)
    /\ [][ /\ (InPoll /\ reads' > reads) =>
                (pc = "poll_read" /\ pc' = "poll_sleep" /\ clock' = clock)
           /\ (InPoll /\ clock' > clock) =>
                (pc = "poll_sleep" /\ pc' = "poll_check" /\ reads' = reads)
           /\ (InPoll /\ pc' = "done") => pc = "poll_check"
           /\ (pc = "idle" /\ pc' # "done") =>
                (pc' = "poll_read" /\ reads' = 0 /\ clock' = start')
         ]_vars

\* timeout 0: one status read, one sleep, then the timeout
C15_Witness ==
    /\ call.op = "stb_polling"
    /\ call.timeout = 0
    /\ err = "SynchronizationTimeout"
    /\ reads = 1
    /\ clock - start = call.interval
    /\ log = <<Ev("read_stb", <<>>)>>

\* the text a set of `v` on the descriptor `d` substitutes for its
\* format specifier
SentText(d, v) ==
    LET p == IF d.set_process = "inc" THEN VInt(v.n + 1) ELSE v
    IN  Format(d.fmt,
               IF ~d.map_values THEN p
               ELSE IF d.dkind = "list" THEN VInt(PyIndex(d.values, p))
               ELSE DictGet(d.values, p))

FakeSetIsDone == pc = "done" /\ call.op = "fake_fset"
FakeGetIsDone == pc = "done" /\ call.op = "fake_fget"

OutputOf(f, reply) ==
    Decode(Desc(f.base), BoundInverse(f.base),
           IF f.get_sync = "None" THEN adapter_values(reply)
           ELSE values_sync(PySplit(reply, ";")[1], ",", "float"))

\* C17: what a measurement's get returns (or raises) is determined by the
\* field and by the response of the transport alone: whatever calls came
\* before it, on whatever fields, a get that receives the same response
\* gives the same output, and no call changes what the get path reads
\* besides the response.
C17_MeasurementGetIsAFunction ==
    /\ []((GetIsDone /\ call.f.kind = "measurement") =>
            Outcome(ret, err) = OutputOf(call.f, result))
    /\ [][inverse' = inverse]_vars

\* a get through a measurement in stb_polling mode reads 2 after two
\* status reads and decodes it to Y
C17_Witness ==
    /\ GetIsDone
    /\ call.f.kind = "measurement"
    /\ call.f.base = "dict"
    /\ call.mode = "stb_polling"
    /\ reads = 2
    /\ result = <<"2">>
    /\ ret = RScalar(Y)

\* a set through a field that maps values over a domain which is neither
\* a list, tuple or range nor a dict
IsSetOverOtherDomain ==
    /\ IsSetOn({"control", "setting"})
    /\ Desc(call.f.base).map_values
    /\ Desc(call.f.base).dkind \notin {"list", "dict"}

UsesUnknownMode ==
    /\ \/ IsGetOn({"control", "measurement"})
       \/ IsSetOn({"control", "setting"})
    /\ call.mode \notin {"None", "opc_query", "stb_polling"}

\* C19 as stated: every such get or set fails with InvalidConfiguration and
\* makes no call on the transport.
C19_UnknownModeAlwaysInvalidConfiguration ==
    UsesUnknownMode =>
        (pc = "done" /\ err = "InvalidConfiguration" /\ NoTransportOp)

\* C19: every such get or set fails, makes no call on the transport and
\* never goes on without synchronisation: a get fails with
\* InvalidConfiguration; a set fails with InvalidConfiguration when its
\* value passes the validator, set_process and the mapping, and with the
\* error of the first of these that fails otherwise.
C19_UnknownModeSendsNothing ==
    UsesUnknownMode =>
        LET d == Desc(call.f.base)
            v == call.arg
            p == IF d.set_process = "inc" THEN VInt(v.n + 1) ELSE v
            rejected == d.validator = "strict" /\ ~PyIn(v, Members(d))
            unprocessed == d.set_process = "inc" /\ v.t = "str"
        IN  /\ pc = "done"
            /\ log = <<>>
            /\ reads = 0
            /\ ret = RNone
            /\ err # ""
            /\ call.op = "fget" => err = "InvalidConfiguration"
            /\ call.op = "fset" =>
                 err = IF rejected THEN "InvalidValue"
                       ELSE IF unprocessed THEN "TypeError"
                       ELSE IF ~d.map_values THEN "InvalidConfiguration"
                       ELSE IF d.dkind = "list"
                       THEN IF PyIn(p, d.values) THEN "InvalidConfiguration"
                            ELSE "ValueError"
                       ELSE IF d.dkind = "dict"
                       THEN IF DictHas(d.values, p) THEN "InvalidConfiguration"
                            ELSE "KeyError"
                       ELSE "UnsupportedDomain"

C19_Witness ==
    /\ UsesUnknownMode
    /\ call.op = "fset"
    /\ call.f.kind = "setting"
    /\ call.f.base = "dict"
    /\ call.arg = X
    /\ err = "InvalidConfiguration"

\* C20: ask_sync removes a completion marker only in opc_query mode; in
\* stb_polling mode and without a mode it returns the text of its read as
\* it is, a ';' in that text included.
C20_StripsOnlyInCompletionQuery ==
    ( /\ pc = "done"
      /\ call.op = "ask_sync"
      /\ call.mode \in {"None", "stb_polling"}
      /\ err = "" )
    => ret = RScalar(VStr(result))

\* C21: with every sleep advancing the clock by the interval, a polling
\* wait has read at most timeout \div interval + 1 status bytes at any
\* time, whatever the status bytes are; it goes to a further read only
\* while it has read at most timeout \div interval of them; the timeout is
\* raised after exactly timeout \div interval + 1 reads; and once entered
\* the wait ends, in success or with the timeout.
C21_PollingTerminates ==
    /\ [](reads <= (call.timeout \div call.interval) + 1)
    /\ [](pc = "poll_read" => reads <= call.timeout \div call.interval)
    /\ [](err = "SynchronizationTimeout" =>
            reads = (call.timeout \div call.interval) + 1)
    /\ (pc \in {"poll_read", "poll_sleep", "poll_check"}) ~> (pc = "done")

\* timeout 5, interval 2, no status byte meets the mask: 3 reads
C21_Witness ==
    /\ pc = "done"
    /\ call.op = "stb_polling"
    /\ call.timeout = 5
    /\ call.interval = 2
    /\ reads = 3
    /\ err = "SynchronizationTimeout"

\* write_sync or ask_sync has returned normally in one of the three modes
EngineCallReturned ==
    /\ pc = "done"
    /\ err = ""
    /\ call.op \in {"write_sync", "ask_sync"}
    /\ call.mode \in {"None", "opc_query", "stb_polling"}

\* write_sync was given a command that is not a query, ask_sync a query
CommandFitsCall ==
    \/ call.op = "write_sync" /\ ~IsQuery(call.cmd)
    \/ call.op = "ask_sync" /\ IsQuery(call.cmd)

\* C22 as stated: every write_sync or ask_sync call that returns normally
\* has made as many reads as the queries it sent produce responses.
C22_EveryCallIsBalanced ==
    EngineCallReturned => Produced(log) = Consumed(log)

\* C22: a write_sync of a command that is not a query, or an ask_sync of a
\* query, that returns normally has read as many responses as the queries
\* it sent produce: the completion query in opc_query mode (together with
\* the asked command, one response), the two register queries in
\* stb_polling mode and the asked command after them, the asked command
\* alone without a mode; so each such call leaves the number of unread
\* responses as it found it, and a sequence of them leaves none.
C22_NoUnreadResponse ==
    /\ []((EngineCallReturned /\ CommandFitsCall) =>
            /\ Produced(log) = Consumed(log)
            /\ Consumed(log) =
                 (IF call.mode = "stb_polling" THEN 2
                  ELSE IF call.mode = "opc_query" THEN 1 ELSE 0)
                 + (IF call.op = "ask_sync" /\ call.mode # "opc_query"
                    THEN 1 ELSE 0))
    /\ [][(EngineCallReturned /\ CommandFitsCall /\ pc' = "idle")
            => unread' = unread]_vars

\* an ask_sync in stb_polling mode has returned, after calls that left
\* nothing unread
C22_Witness ==
    /\ EngineCallReturned
    /\ CommandFitsCall
    /\ call.op = "ask_sync"
    /\ call.mode = "stb_polling"
    /\ reads = 2
    /\ Len(log) = 7
    /\ unread = 0

=============================================================================
